---------------------------- MODULE Spec2Model ----------------------------
(***************************************************************************)
(* First-order master-equation kernels of qmeq (qmeq/neumannpy.py): the    *)
(* rate-factor generators, the Pauli and 1vN kernel builders, the          *)
(* matrix-free 1vN operator and the current evaluators.                    *)
(*                                                                         *)
(* Numbers: the code works on float64 / complex128 arrays.  The model      *)
(* works on integers and Gaussian integers <<re, im>> with exact           *)
(* arithmetic; a solved density-matrix vector is a rational vector         *)
(* <<numerators, denominator>>.  Rounding is outside the model.            *)
(*                                                                         *)
(* Indices: states carry labels 1..n (they index E and Tba); addresses of  *)
(* density-matrix elements, leads and charges are 0-based as in the code,  *)
(* and -1 is the invalid-address sentinel.  Arrays are indexed the way     *)
(* python lists and numpy arrays are: -k is the k-th entry from the end,   *)
(* anything outside [-len, len) raises IndexError.                         *)
(***************************************************************************)
EXTENDS Integers, Sequences, FiniteSets, TLC

VARIABLES
    si,        \* sys.si: the charge-sector indexer
    funcp,     \* sys.funcp: [symq, norm_row]
    kerntype,  \* "Pauli" or "1vN"
    E,         \* sys.qd.Ea: eigenenergy of every state
    Tba,       \* sys.leads.Tba: tunneling amplitudes [lead, state, state]
    fct,       \* sys.paulifct (Pauli) or sys.phi1fct (1vN): [lead, dm1 address, branch]
    kern,      \* what the kernel builder returned, or the error it raised
    phi0,      \* sys.phi0: the solver's stationary vector
    cur,       \* what the current evaluator returned
    vec,       \* an application of the matrix-free operator: input and output
    gen        \* a run of a rate-factor generator: the oracle's answers, the calls made, the table

vars == <<si, funcp, kerntype, E, Tba, fct, kern, phi0, cur, vec, gen>>

\* a result not produced yet
None == [st |-> "none"]

-----------------------------------------------------------------------------
(* Bounds of the model.                                                    *)

MaxStates == 3      \* many-body states in the sector table
MaxLeads == 2       \* leads
MaxRate == 2        \* rate factors and the answers of func_pauli lie in 0..MaxRate
MaxE == 1           \* eigenenergies lie in 0..MaxE
MaxWeight == 2      \* equilibrium weights lie in 1..MaxWeight
MaxCoupled == 2     \* nleads * ndm1: the (lead, pair) entries of a rate table

-----------------------------------------------------------------------------
(* Sequences and sums.                                                     *)

\* a sequence, and a function on 0..n-1, given by a rule: its entries
\* computed once and laid out
List(s) == s \o <<>>
Array(f) == f @@ <<>>

RECURSIVE Flatten(_)
Flatten(ss) == IF ss = <<>> THEN <<>> ELSE Head(ss) \o Flatten(Tail(ss))

\* range(n) of python: 0, 1, ..., n-1
Range(n) == List([i \in 1..n |-> i - 1])

\* the sequence F(s[1]), F(s[2]), ... flattened: one nested loop level
ForEach(s, F(_)) == Flatten(List([i \in 1..Len(s) |-> F(s[i])]))

RECURSIVE SumSeq(_)
SumSeq(s) == IF s = <<>> THEN 0 ELSE Head(s) + SumSeq(Tail(s))

\* itertools.product(s, t)
Product(s, t) == ForEach(s, LAMBDA x : List([j \in 1..Len(t) |-> <<x, t[j]>>]))

\* itertools.combinations_with_replacement(s, 2)
CombinationsWithReplacement(s) ==
    ForEach(Range(Len(s)), LAMBDA i :
        List([j \in 1..(Len(s) - i) |-> <<s[i + 1], s[i + j]>>]))

\* python / numpy indexing of an axis of length n: subscript i raises IndexError
\* unless it is in range, and a negative subscript counts from the end
InRange(i, n) == -n <= i /\ i < n
NpIndex(i, n) == IF i < 0 THEN i + n ELSE i

-----------------------------------------------------------------------------
(* Complex numbers as <<re, im>>.                                          *)

Cx(re, im) == <<re, im>>
CZero == <<0, 0>>
Re(z) == z[1]
Im(z) == z[2]
CAdd(z, w) == <<z[1] + w[1], z[2] + w[2]>>
CSub(z, w) == <<z[1] - w[1], z[2] - w[2]>>
CMul(z, w) == <<z[1] * w[1] - z[2] * w[2], z[1] * w[2] + z[2] * w[1]>>
CNeg(z) == <<-z[1], -z[2]>>
Conj(z) == <<z[1], -z[2]>>
CScale(k, z) == <<k * z[1], k * z[2]>>

RECURSIVE CSumSeq(_)
CSumSeq(s) == IF s = <<>> THEN CZero ELSE CAdd(Head(s), CSumSeq(Tail(s)))

-----------------------------------------------------------------------------
(* The charge-sector indexer sys.si.  Its code lies outside neumannpy.py:  *)
(* it is modelled from the data model of the specification.                *)
(* States are labelled 1..n in eigenbasis order, sector by sector.         *)

\* the labels of sector k (1-based k) of a table with the given sector sizes
SectorStart(sizes, k) == SumSeq(SubSeq(sizes, 1, k - 1))
SectorStates(sizes, k) == [i \in 1..sizes[k] |-> SectorStart(sizes, k) + i]

\* the coherences of a table: the pairs a < b of one sector
CoherencePairs(sizes) ==
    {<<a, b>> \in (1..SumSeq(sizes)) \X (1..SumSeq(sizes)) :
        a < b /\ \E k \in 1..Len(sizes) :
                    /\ SectorStart(sizes, k) < a
                    /\ b <= SectorStart(sizes, k) + sizes[k]}

\* lexicographic order of pairs, and the rank of a pair in a set of pairs
PairLess(p, q) == p[1] < q[1] \/ (p[1] = q[1] /\ p[2] < q[2])
PairRank(p, S) == Cardinality({q \in S : PairLess(q, p)})

\* The indexer of a sector table.  forbidden: the coherences a selection rule
\* excludes.  pad: whether the table carries an empty entry after the last sector.
BuildIndexer(sizes, forbidden, nleads, pad) ==
    LET n == SumSeq(sizes)
        nc == Len(sizes)
        chargeof == [s \in 1..n |->
                        CHOOSE k \in 0..(nc - 1) :
                            SectorStart(sizes, k + 1) < s
                            /\ s <= SectorStart(sizes, k + 1) + sizes[k + 1]]
        coh == CoherencePairs(sizes) \ forbidden
        adj == {<<c, b>> \in (1..n) \X (1..n) : chargeof[c] = chargeof[b] + 1}
    IN  [ ncharge  |-> nc,
          nleads   |-> nleads,
          statesdm |-> [k \in 1..nc |-> SectorStates(sizes, k)]
                         \o (IF pad THEN << <<>> >> ELSE <<>>),
          chargeof |-> chargeof,
          npauli   |-> n,
          ndm0     |-> n + Cardinality(coh),
          ndm0r    |-> n + 2 * Cardinality(coh),
          ndm1     |-> Cardinality(adj),
          mapdm0   |-> [p \in (1..n) \X (1..n) |->
                          IF p[1] = p[2] THEN p[1] - 1
                          ELSE IF <<p[1], p[2]>> \in coh THEN n + PairRank(p, coh)
                          ELSE IF <<p[2], p[1]>> \in coh
                               THEN n + PairRank(<<p[2], p[1]>>, coh)
                          ELSE -1],
          mapdm1   |-> [p \in (1..n) \X (1..n) |->
                          IF p \in adj THEN PairRank(p, adj) ELSE -1] ]

\* si.statesdm[charge], a python list access: <<>> stands in where it raises
SectorInRange(charge) ==
    -Len(si.statesdm) <= charge /\ charge < Len(si.statesdm)
Sector(charge) ==
    IF SectorInRange(charge)
    THEN si.statesdm[NpIndex(charge, Len(si.statesdm)) + 1]
    ELSE <<>>

\* si.get_ind_dm0(b, bp, charge, maptype): maptype 0 the address or -1,
\* 2 whether the pair has an address, 3 whether (b, bp) is the stored orientation
get_ind_dm0_valid(b, bp, charge) ==
    /\ b \in DOMAIN si.chargeof /\ bp \in DOMAIN si.chargeof
    /\ si.chargeof[b] = charge /\ si.chargeof[bp] = charge
    /\ si.mapdm0[<<b, bp>>] # -1
get_ind_dm0(b, bp, charge) ==
    IF get_ind_dm0_valid(b, bp, charge) THEN si.mapdm0[<<b, bp>>] ELSE -1
get_ind_dm0_bool(b, bp, charge) == get_ind_dm0_valid(b, bp, charge)
get_ind_dm0_conj(b, bp, charge) == get_ind_dm0_valid(b, bp, charge) /\ b <= bp

\* si.get_ind_dm1(c, b, charge): the address of the pair c in charge+1, b in charge
get_ind_dm1(c, b, charge) ==
    IF /\ c \in DOMAIN si.chargeof /\ b \in DOMAIN si.chargeof
       /\ si.chargeof[c] = charge + 1 /\ si.chargeof[b] = charge
    THEN si.mapdm1[<<c, b>>]
    ELSE -1

-----------------------------------------------------------------------------
(* Arrays.  A rate table is a function on <<lead, dm1 address, branch>>;   *)
(* a matrix is a function row -> (column -> value), rows and columns from  *)
(* 0.  An update is one in-place "kern[row, col] += val" of the code, with *)
(* the subscripts as the code computed them: ok tells whether the reads    *)
(* that gave val were in range, subs lists the subscripts that came from   *)
(* an address lookup.                                                      *)

TableDomain(s) == (0..(s.nleads - 1)) \X (0..(s.ndm1 - 1)) \X {0, 1}

\* table[l, i, d] of numpy: the entry, the count wrapping a negative i
TableOk(i) == InRange(i, si.ndm1)
TableRead(table, l, i, d, zero) ==
    IF TableOk(i) THEN table[<<l, NpIndex(i, si.ndm1), d>>] ELSE zero

Zeros(rows, cols) == Array([r \in 0..(rows - 1) |-> Array([c \in 0..(cols - 1) |-> 0])])
ZeroVec(n) == Array([i \in 0..(n - 1) |-> 0])

Upd(row, col, val, ok, subs) ==
    [op |-> "add", row |-> row, col |-> col, val |-> val, ok |-> ok, subs |-> subs]
ZeroRow(row) ==
    [op |-> "zero", row |-> row, col |-> 0, val |-> 0, ok |-> TRUE, subs |-> {}]
Raise ==
    [op |-> "raise", row |-> 0, col |-> 0, val |-> 0, ok |-> FALSE, subs |-> {}]

\* whether numpy carries the update out on a rows x cols matrix
UpdateOk(rows, cols, u) ==
    /\ u.op # "raise"
    /\ u.ok
    /\ InRange(u.row, rows)
    /\ u.op = "add" => InRange(u.col, cols)

\* one update applied to a matrix, as numpy applies it
ApplyUpdate(m, rows, cols, u) ==
    IF u.op = "zero"
    THEN [m EXCEPT ![NpIndex(u.row, rows)] = ZeroVec(cols)]
    ELSE [m EXCEPT ![NpIndex(u.row, rows)][NpIndex(u.col, cols)] = @ + u.val]

\* The updates us[i..] applied in order to acc.m until one raises: acc is
\* [err, m, n, subs], n the number of updates carried out and subs the
\* address-lookup subscripts they used.
RECURSIVE ApplyUpdates(_, _, _, _, _)
ApplyUpdates(acc, rows, cols, us, i) ==
    IF i > Len(us) \/ acc.err THEN acc
    ELSE IF ~UpdateOk(rows, cols, us[i]) THEN [acc EXCEPT !.err = TRUE]
    ELSE ApplyUpdates([err  |-> FALSE,
                       m    |-> ApplyUpdate(acc.m, rows, cols, us[i]),
                       n    |-> acc.n + 1,
                       subs |-> acc.subs \cup us[i].subs],
                      rows, cols, us, i + 1)

\* for x in si.statesdm[charge]: F(x)  --  IndexError if the table has no such entry
SectorLoop(charge, F(_)) ==
    IF SectorInRange(charge) THEN ForEach(Sector(charge), F) ELSE <<Raise>>

\* what a kernel builder hands back: the kernel, or the error it raised
\* (n: the updates carried out, subs: the address-lookup subscripts used)
BuilderResult(norm_row, rows, cols, us) ==
    IF ~InRange(norm_row, rows)
    THEN [st |-> "IndexError", n |-> 0, subs |-> {}]
    ELSE LET acc == ApplyUpdates([err |-> FALSE, m |-> Zeros(rows, cols), n |-> 0,
                                  subs |-> {}], rows, cols, us, 1)
         IN  IF acc.err
             THEN [st |-> "IndexError", n |-> acc.n, subs |-> acc.subs]
             ELSE [st   |-> "ok",
                   kern |-> acc.m,
                   bvec |-> [ZeroVec(rows) EXCEPT ![NpIndex(norm_row, rows)] = 1],
                   n    |-> acc.n,
                   subs |-> acc.subs]

-----------------------------------------------------------------------------
(* Pauli master equation: generate_kern_pauli.                             *)

\* the a-loop body with the branches of the rate table exchanged
KernPauliLowerSwapped(paulifct, charge, b, bb, a) ==
    LET aa == get_ind_dm0(a, a, charge - 1)
        ba == get_ind_dm1(b, a, charge - 1)
    IN  ForEach(Range(si.nleads), LAMBDA l :
            << Upd(bb, bb, -TableRead(paulifct, l, ba, 0, 0), TableOk(ba), {bb, ba}),
               Upd(bb, aa, TableRead(paulifct, l, ba, 1, 0), TableOk(ba), {bb, aa, ba}) >>)

\* the a-loop body (lines 108-112) and the c-loop body (lines 114-118)
KernPauliLower(paulifct, charge, b, bb, a) ==
    LET aa == get_ind_dm0(a, a, charge - 1)
        ba == get_ind_dm1(b, a, charge - 1)
    IN  ForEach(Range(si.nleads), LAMBDA l :
            << Upd(bb, bb, -TableRead(paulifct, l, ba, 1, 0), TableOk(ba), {bb, ba}),
               Upd(bb, aa, TableRead(paulifct, l, ba, 0, 0), TableOk(ba), {bb, aa, ba}) >>)

\* the c-loop body with the off-diagonal entry taken from the branch of the diagonal one
KernPauliUpperSameBranch(paulifct, charge, b, bb, c) ==
    LET cc == get_ind_dm0(c, c, charge + 1)
        cb == get_ind_dm1(c, b, charge)
    IN  ForEach(Range(si.nleads), LAMBDA l :
            << Upd(bb, bb, -TableRead(paulifct, l, cb, 0, 0), TableOk(cb), {bb, cb}),
               Upd(bb, cc, TableRead(paulifct, l, cb, 0, 0), TableOk(cb), {bb, cc, cb}) >>)

KernPauliUpper(paulifct, charge, b, bb, c) ==
    LET cc == get_ind_dm0(c, c, charge + 1)
        cb == get_ind_dm1(c, b, charge)
    IN  ForEach(Range(si.nleads), LAMBDA l :
            << Upd(bb, bb, -TableRead(paulifct, l, cb, 0, 0), TableOk(cb), {bb, cb}),
               Upd(bb, cc, TableRead(paulifct, l, cb, 1, 0), TableOk(cb), {bb, cc, cb}) >>)

\* the body of the loop over the states b of a sector (lines 103-118)
KernPauliState(paulifct, symq, norm_row, charge, b) ==
    LET bb == get_ind_dm0(b, b, charge)
        bb_bool == get_ind_dm0_bool(b, b, charge)
    IN  << Upd(norm_row, bb, 1, TRUE, {bb}) >>
        \o (IF ~(symq /\ bb = norm_row) /\ bb_bool
            THEN SectorLoop(charge - 1,
                            LAMBDA a : KernPauliLower(paulifct, charge, b, bb, a))
                 \o SectorLoop(charge + 1,
                               LAMBDA c : KernPauliUpper(paulifct, charge, b, bb, c))
            ELSE <<>>)

\* the in-place updates of kern the loops make, in the order they make them
KernPauliUpdates(paulifct, symq, norm_row) ==
    ForEach(Range(si.ncharge), LAMBDA charge :
        ForEach(Sector(charge), LAMBDA b :
            KernPauliState(paulifct, symq, norm_row, charge, b)))

\* generate_kern_pauli with the row past the rate rows allocated in both modes
generate_kern_pauli_extra_row(paulifct, symq, norm_rowp) ==
    LET norm_row == IF symq THEN norm_rowp ELSE si.npauli
        last_row == si.npauli
    IN  BuilderResult(norm_row, last_row + 1, si.npauli,
                      KernPauliUpdates(paulifct, symq, norm_row))

generate_kern_pauli(paulifct, symq, norm_rowp) ==
    LET norm_row == IF symq THEN norm_rowp ELSE si.npauli
        last_row == IF symq THEN si.npauli - 1 ELSE si.npauli
    IN  BuilderResult(norm_row, last_row + 1, si.npauli,
                      KernPauliUpdates(paulifct, symq, norm_row))

-----------------------------------------------------------------------------
(* Pauli master equation: generate_current_pauli.  phi0 is the rational    *)
(* vector p / den; the currents are returned as numerators over den.       *)

CurrentPauliTerms(p, paulifct, l, weight(_, _)) ==
    ForEach(Range(si.ncharge - 1), LAMBDA charge :
        ForEach(Sector(charge + 1), LAMBDA c :
            ForEach(Sector(charge), LAMBDA b :
                LET cc == get_ind_dm0(c, c, charge + 1)
                    bb == get_ind_dm0(b, b, charge)
                    cb == get_ind_dm1(c, b, charge)
                    fct1 == p[bb] * paulifct[<<l, cb, 0>>]
                    fct2 == -p[cc] * paulifct[<<l, cb, 1>>]
                IN  << weight(b, c) * (fct1 + fct2) >>)))

\* the addresses the loops of generate_current_pauli subscript with (lines 144-150)
CurrentPauliSubs ==
    UNION {{get_ind_dm0(c, c, si.chargeof[c]), get_ind_dm0(b, b, si.chargeof[b]),
            get_ind_dm1(c, b, si.chargeof[b])} :
           <<c, b>> \in {q \in (1..si.npauli) \X (1..si.npauli) :
                            si.chargeof[q[1]] = si.chargeof[q[2]] + 1}}

\* generate_current_pauli with the energy weight taken as E[b] - E[c]
generate_current_pauli_reversed(p, den, En, paulifct) ==
    [ st             |-> "ok",
      den            |-> den,
      subs           |-> CurrentPauliSubs,
      current        |-> [l \in 0..(si.nleads - 1) |->
                            SumSeq(CurrentPauliTerms(p, paulifct, l, LAMBDA b, c : 1))],
      energy_current |-> [l \in 0..(si.nleads - 1) |->
                            SumSeq(CurrentPauliTerms(p, paulifct, l,
                                                     LAMBDA b, c : En[b] - En[c]))] ]

generate_current_pauli(p, den, En, paulifct) ==
    [ st             |-> "ok",
      den            |-> den,
      subs           |-> CurrentPauliSubs,
      current        |-> [l \in 0..(si.nleads - 1) |->
                            SumSeq(CurrentPauliTerms(p, paulifct, l, LAMBDA b, c : 1))],
      energy_current |-> [l \in 0..(si.nleads - 1) |->
                            SumSeq(CurrentPauliTerms(p, paulifct, l,
                                                     LAMBDA b, c : -(En[b] - En[c])))] ]

-----------------------------------------------------------------------------
(* 1vN approach: generate_kern_1vN.                                        *)

\* the address of the imaginary part of density-matrix element k (lines 186, 201, ...)
ImagSlot(k) == si.ndm0 + k - si.npauli

\* a factor fct_...: its value, whether computing it raised nothing, and the
\* dm1 addresses it read the rate table at
Fct(val, ok, subs) == [val |-> val, ok |-> ok, subs |-> subs]
FctSum(fs) ==
    Fct(CSumSeq(List([i \in 1..Len(fs) |-> fs[i].val])),
        \A i \in 1..Len(fs) : fs[i].ok,
        UNION {fs[i].subs : i \in 1..Len(fs)})
FctRaise == Fct(CZero, FALSE, {})

\* the factor summed over the states x of si.statesdm[charge] and over the leads
FctOverSector(charge, term(_, _)) ==
    IF SectorInRange(charge)
    THEN FctSum(ForEach(Sector(charge), LAMBDA x :
             ForEach(Range(si.nleads), LAMBDA l : << term(x, l) >>)))
    ELSE FctRaise

T(l, i, j) == Tba[<<l, i, j>>]
Phi(phi1fct, l, i, d) == TableRead(phi1fct, l, i, d, CZero)

\* lines 195-200
FctAap(phi1fct, charge, b, bp, a, ap) ==
    LET bpa == get_ind_dm1(bp, a, charge - 1)
        bap == get_ind_dm1(b, ap, charge - 1)
    IN  FctSum(List([i \in 1..si.nleads |->
            LET l == i - 1
            IN  Fct(CSub(CMul(CMul(T(l, b, a), T(l, ap, bp)), Conj(Phi(phi1fct, l, bpa, 0))),
                         CMul(CMul(T(l, b, a), T(l, ap, bp)), Phi(phi1fct, l, bap, 0))),
                    TableOk(bpa) /\ TableOk(bap), {bpa, bap})]))

\* lines 214-222
FctBppbp(phi1fct, charge, b, bp, bpp) ==
    LET lower == FctOverSector(charge - 1, LAMBDA a, l :
                    LET bpa == get_ind_dm1(bp, a, charge - 1)
                    IN  Fct(CMul(CMul(T(l, b, a), T(l, a, bpp)), Conj(Phi(phi1fct, l, bpa, 1))),
                            TableOk(bpa), {bpa}))
        upper == FctOverSector(charge + 1, LAMBDA c, l :
                    LET cbp == get_ind_dm1(c, bp, charge)
                    IN  Fct(CMul(CMul(T(l, b, c), T(l, c, bpp)), Phi(phi1fct, l, cbp, 0)),
                            TableOk(cbp), {cbp}))
    IN  FctSum(<<lower, upper>>)

\* lines 235-243
FctBbpp(phi1fct, charge, b, bp, bpp) ==
    LET lower == FctOverSector(charge - 1, LAMBDA a, l :
                    LET ba == get_ind_dm1(b, a, charge - 1)
                    IN  Fct(CNeg(CMul(CMul(T(l, bpp, a), T(l, a, bp)), Phi(phi1fct, l, ba, 1))),
                            TableOk(ba), {ba}))
        upper == FctOverSector(charge + 1, LAMBDA c, l :
                    LET cb == get_ind_dm1(c, b, charge)
                    IN  Fct(CNeg(CMul(CMul(T(l, bpp, c), T(l, c, bp)),
                                      Conj(Phi(phi1fct, l, cb, 0)))),
                            TableOk(cb), {cb}))
    IN  FctSum(<<lower, upper>>)

\* fct_ccp with the conjugation of the second rate factor left out
FctCcpNoConj(phi1fct, charge, b, bp, c, cp) ==
    LET cbp == get_ind_dm1(c, bp, charge)
        cpb == get_ind_dm1(cp, b, charge)
    IN  FctSum(List([i \in 1..si.nleads |->
            LET l == i - 1
            IN  Fct(CSub(CMul(CMul(T(l, b, c), T(l, cp, bp)), Phi(phi1fct, l, cbp, 1)),
                         CMul(CMul(T(l, b, c), T(l, cp, bp)), Phi(phi1fct, l, cpb, 1))),
                    TableOk(cbp) /\ TableOk(cpb), {cbp, cpb})]))

\* lines 257-262
FctCcp(phi1fct, charge, b, bp, c, cp) ==
    LET cbp == get_ind_dm1(c, bp, charge)
        cpb == get_ind_dm1(cp, b, charge)
    IN  FctSum(List([i \in 1..si.nleads |->
            LET l == i - 1
            IN  Fct(CSub(CMul(CMul(T(l, b, c), T(l, cp, bp)), Phi(phi1fct, l, cbp, 1)),
                         CMul(CMul(T(l, b, c), T(l, cp, bp)), Conj(Phi(phi1fct, l, cpb, 1)))),
                    TableOk(cbp) /\ TableOk(cpb), {cbp, cpb})]))

\* a factor routed into the kernel with no test of the imaginary slots
RouteUnguarded(bbp, bbpi, bbpi_bool, x, sgn, f) ==
    LET xi == ImagSlot(x)
        subs == {bbp, x} \cup f.subs
    IN  << Upd(bbp, x, Im(f.val), f.ok, subs),
           Upd(bbp, xi, Re(f.val) * sgn, f.ok, subs),
           Upd(bbpi, xi, Im(f.val) * sgn, f.ok, subs),
           Upd(bbpi, x, -Re(f.val), f.ok, subs) >>

\* A factor routed into the kernel (lines 201-209, 223-231, 244-252, 263-271):
\* x the address of the source element, sgn its orientation sign.
Route(bbp, bbpi, bbpi_bool, x, sgn, f) ==
    LET xi == ImagSlot(x)
        subs == {bbp, x} \cup f.subs
    IN  << Upd(bbp, x, Im(f.val), f.ok, subs) >>
        \o (IF xi >= si.ndm0
            THEN << Upd(bbp, xi, Re(f.val) * sgn, f.ok, subs) >>
                 \o (IF bbpi_bool THEN << Upd(bbpi, xi, Im(f.val) * sgn, f.ok, subs) >>
                     ELSE <<>>)
            ELSE <<>>)
        \o (IF bbpi_bool THEN << Upd(bbpi, x, -Re(f.val), f.ok, subs) >> ELSE <<>>)

Sgn(conj) == IF conj THEN 1 ELSE -1

\* for x, xp in itertools.product(si.statesdm[charge], si.statesdm[charge]): F(<<x, xp>>)
SectorPairLoop(charge, F(_)) ==
    IF SectorInRange(charge) THEN ForEach(Product(Sector(charge), Sector(charge)), F)
    ELSE <<Raise>>

\* the body of the loop over (a, ap) without the test of the address aap
Kern1vNLowerUnguarded(phi1fct, charge, b, bp, a, ap) ==
    LET bbp == get_ind_dm0(b, bp, charge)
        bbpi == ImagSlot(bbp)
        aap == get_ind_dm0(a, ap, charge - 1)
    IN  Route(bbp, bbpi, bbpi >= si.ndm0, aap,
              Sgn(get_ind_dm0_conj(a, ap, charge - 1)),
              FctAap(phi1fct, charge, b, bp, a, ap))

\* the body of the loop over the pairs (a, ap) of the sector below (lines 192-209)
Kern1vNLower(phi1fct, charge, b, bp, a, ap) ==
    LET bbp == get_ind_dm0(b, bp, charge)
        bbpi == ImagSlot(bbp)
        aap == get_ind_dm0(a, ap, charge - 1)
    IN  IF aap # -1
        THEN Route(bbp, bbpi, bbpi >= si.ndm0, aap,
                   Sgn(get_ind_dm0_conj(a, ap, charge - 1)),
                   FctAap(phi1fct, charge, b, bp, a, ap))
        ELSE <<>>

\* the body of the loop over the pairs (b, bp) of a sector (lines 183-271)
Kern1vNPair(En, phi1fct, charge, b, bp) ==
    LET bbp == get_ind_dm0(b, bp, charge)
        bbp_bool == get_ind_dm0_bool(b, bp, charge)
        bbpi == ImagSlot(bbp)
        bbpi_bool == bbpi >= si.ndm0
    IN  IF bbp # -1 /\ bbp_bool
        THEN (IF bbpi_bool
              THEN << Upd(bbp, bbpi, En[b] - En[bp], TRUE, {bbp}),
                      Upd(bbpi, bbp, En[bp] - En[b], TRUE, {bbp}) >>
              ELSE <<>>)
             \o SectorPairLoop(charge - 1, LAMBDA q :
                    Kern1vNLower(phi1fct, charge, b, bp, q[1], q[2]))
             \o SectorLoop(charge, LAMBDA bpp :
                    LET bppbp == get_ind_dm0(bpp, bp, charge)
                        bbpp == get_ind_dm0(b, bpp, charge)
                    IN  (IF bppbp # -1
                         THEN Route(bbp, bbpi, bbpi_bool, bppbp,
                                    Sgn(get_ind_dm0_conj(bpp, bp, charge)),
                                    FctBppbp(phi1fct, charge, b, bp, bpp))
                         ELSE <<>>)
                        \o (IF bbpp # -1
                            THEN Route(bbp, bbpi, bbpi_bool, bbpp,
                                       Sgn(get_ind_dm0_conj(b, bpp, charge)),
                                       FctBbpp(phi1fct, charge, b, bp, bpp))
                            ELSE <<>>))
             \o SectorPairLoop(charge + 1, LAMBDA q :
                    LET ccp == get_ind_dm0(q[1], q[2], charge + 1)
                    IN  IF ccp # -1
                        THEN Route(bbp, bbpi, bbpi_bool, ccp,
                                   Sgn(get_ind_dm0_conj(q[1], q[2], charge + 1)),
                                   FctCcp(phi1fct, charge, b, bp, q[1], q[2]))
                        ELSE <<>>)
        ELSE <<>>

\* the normalisation condition (lines 274-278)
Kern1vNNorm(norm_row) ==
    << ZeroRow(norm_row) >>
    \o ForEach(Range(si.ncharge), LAMBDA charge :
           ForEach(Sector(charge), LAMBDA b :
               << Upd(norm_row, get_ind_dm0(b, b, charge), 1, TRUE,
                      {get_ind_dm0(b, b, charge)}) >>))

\* the in-place updates of kern, in the order the code makes them
Kern1vNUpdates(En, phi1fct, norm_row) ==
    ForEach(Range(si.ncharge), LAMBDA charge :
        ForEach(CombinationsWithReplacement(Sector(charge)), LAMBDA q :
            Kern1vNPair(En, phi1fct, charge, q[1], q[2])))
    \o Kern1vNNorm(norm_row)

generate_kern_1vN(En, phi1fct, symq, norm_rowp) ==
    LET norm_row == IF symq THEN norm_rowp ELSE si.ndm0r
        last_row == IF symq THEN si.ndm0r - 1 ELSE si.ndm0r
    IN  BuilderResult(norm_row, last_row + 1, si.ndm0r,
                      Kern1vNUpdates(En, phi1fct, norm_row))

-----------------------------------------------------------------------------
(* 1vN approach: the packed real vector and generate_vec_1vN.              *)

\* phi0 of lines 305-307 and 359-361: the complex density matrix of a packed vector
Unpack(p) ==
    Array([k \in 0..(si.ndm0 - 1) |->
        IF k < si.npauli THEN Cx(p[k], 0) ELSE Cx(p[k], p[ImagSlot(k)])])

\* phi0[k] if the pair is stored in this orientation else phi0[k].conjugate()
Oriented(ph, k, conj) == IF conj THEN ph[k] ELSE Conj(ph[k])

\* i_dphi0_dt[bbp] += f * x
VecUpd(bbp, f, x) == Upd(bbp, 0, CMul(f.val, x), f.ok, {bbp} \cup f.subs)

\* the body of the loop over the pairs (b, bp) of a sector (lines 367-425)
Vec1vNPair(En, phi1fct, ph, charge, b, bp) ==
    LET bbp == get_ind_dm0(b, bp, charge)
        bbp_bool == get_ind_dm0_bool(b, bp, charge)
    IN  IF bbp # -1 /\ bbp_bool
        THEN << Upd(bbp, 0, CScale(En[b] - En[bp], ph[bbp]), TRUE, {bbp}) >>
             \o SectorPairLoop(charge - 1, LAMBDA q :
                    LET aap == get_ind_dm0(q[1], q[2], charge - 1)
                    IN  IF aap # -1
                        THEN << VecUpd(bbp, FctAap(phi1fct, charge, b, bp, q[1], q[2]),
                                       Oriented(ph, aap,
                                                get_ind_dm0_conj(q[1], q[2], charge - 1))) >>
                        ELSE <<>>)
             \o SectorLoop(charge, LAMBDA bpp :
                    LET bppbp == get_ind_dm0(bpp, bp, charge)
                        bbpp == get_ind_dm0(b, bpp, charge)
                    IN  (IF bppbp # -1
                         THEN << VecUpd(bbp, FctBppbp(phi1fct, charge, b, bp, bpp),
                                        Oriented(ph, bppbp,
                                                 get_ind_dm0_conj(bpp, bp, charge))) >>
                         ELSE <<>>)
                        \o (IF bbpp # -1
                            THEN << VecUpd(bbp, FctBbpp(phi1fct, charge, b, bp, bpp),
                                           Oriented(ph, bbpp,
                                                    get_ind_dm0_conj(b, bpp, charge))) >>
                            ELSE <<>>))
             \o SectorPairLoop(charge + 1, LAMBDA q :
                    LET ccp == get_ind_dm0(q[1], q[2], charge + 1)
                    IN  IF ccp # -1
                        THEN << VecUpd(bbp, FctCcp(phi1fct, charge, b, bp, q[1], q[2]),
                                       Oriented(ph, ccp,
                                                get_ind_dm0_conj(q[1], q[2], charge + 1))) >>
                        ELSE <<>>)
        ELSE <<>>

\* the updates of i_dphi0_dt, in the order the code makes them
Vec1vNUpdates(En, phi1fct, ph) ==
    ForEach(Range(si.ncharge), LAMBDA charge :
        ForEach(CombinationsWithReplacement(Sector(charge)), LAMBDA q :
            Vec1vNPair(En, phi1fct, ph, charge, q[1], q[2])))

\* norm of line 369: the sum of phi0 over the diagonal pairs that have an address
Vec1vNNorm(ph) ==
    CSumSeq(ForEach(Range(si.ncharge), LAMBDA charge :
        ForEach(Sector(charge), LAMBDA b :
            IF get_ind_dm0(b, b, charge) # -1
            THEN << ph[get_ind_dm0(b, b, charge)] >> ELSE <<>>)))

generate_vec_1vN(p, En, phi1fct, norm_row) ==
    LET ph == Unpack(p)
        us == Vec1vNUpdates(En, phi1fct, ph)
        ok == /\ \A i \in 1..Len(us) : us[i].ok /\ InRange(us[i].row, si.ndm0)
              /\ InRange(norm_row, si.ndm0)
        acc == Array([k \in 0..(si.ndm0 - 1) |->
                  CSumSeq(ForEach(us, LAMBDA u :
                      IF NpIndex(u.row, si.ndm0) = k THEN << u.val >> ELSE <<>>))])
        norm == Vec1vNNorm(ph)
        \* i_dphi0_dt[norm_row] = 1j*(norm-1)
        i_dphi0_dt == [acc EXCEPT ![NpIndex(norm_row, si.ndm0)] =
                                      Cx(-Im(norm), Re(norm) - 1)]
    IN  IF ~ok THEN [st |-> "IndexError"]
        ELSE [st  |-> "ok",
              out |-> [k \in 0..(si.ndm0r - 1) |->
                         IF k < si.ndm0 THEN Im(i_dphi0_dt[k])
                         ELSE Re(i_dphi0_dt[si.npauli + (k - si.ndm0)])],
              subs |-> UNION {us[i].subs : i \in 1..Len(us)}]

-----------------------------------------------------------------------------
(* 1vN approach: generate_phi1_1vN.  phi0 is the rational vector p / den;  *)
(* phi1 and the currents are returned as numerators over den.              *)

\* lead half-bandwidths sys.leads.dlst
dlst == [l \in 0..(MaxLeads - 1) |-> l + 1]

\* phi1fct_energy as generate_phi1fct fills it (lines 44-45)
Phi1fctEnergy(En, phi1fct, l, c, b, d) ==
    CSub(Cx(IF d = 0 THEN dlst[l] ELSE -dlst[l], 0),
         CScale(En[b] - En[c], phi1fct[<<l, get_ind_dm1(c, b, si.chargeof[b]), d>>]))

\* One contribution of lines 319-334 for the pair (c, b) and lead l: its
\* additions to phi1[l, cb], current[l] and energy_current[l].
Phi1Term(cb, phi1, current, energy, subs) ==
    [cb |-> cb, phi1 |-> phi1, current |-> current, energy |-> energy, subs |-> subs]

Phi1Terms(ph, En, phi1fct, l) ==
    ForEach(Range(si.ncharge - 1), LAMBDA charge :
        ForEach(Product(Sector(charge + 1), Sector(charge)), LAMBDA q :
            LET c == q[1]
                b == q[2]
                cb == get_ind_dm1(c, b, charge)
                fct1 == phi1fct[<<l, cb, 0>>]
                fct2 == phi1fct[<<l, cb, 1>>]
                fct1h == Phi1fctEnergy(En, phi1fct, l, c, b, 0)
                fct2h == Phi1fctEnergy(En, phi1fct, l, c, b, 1)
            IN  ForEach(Sector(charge), LAMBDA bp :
                    LET bpb == get_ind_dm0(bp, b, charge)
                        phi0bpb == Oriented(ph, bpb, get_ind_dm0_conj(bp, b, charge))
                    IN  IF bpb # -1
                        THEN << Phi1Term(cb,
                                  CMul(CMul(T(l, c, bp), phi0bpb), fct1),
                                  CMul(CMul(CMul(T(l, b, c), T(l, c, bp)), phi0bpb), fct1),
                                  CMul(CMul(CMul(T(l, b, c), T(l, c, bp)), phi0bpb), fct1h),
                                  {cb, bpb}) >>
                        ELSE <<>>)
                \o ForEach(Sector(charge + 1), LAMBDA cp :
                    LET ccp == get_ind_dm0(c, cp, charge + 1)
                        phi0ccp == Oriented(ph, ccp, get_ind_dm0_conj(c, cp, charge + 1))
                    IN  IF ccp # -1
                        THEN << Phi1Term(cb,
                                  CMul(CMul(T(l, cp, b), phi0ccp), fct2),
                                  CMul(CMul(CMul(T(l, b, c), phi0ccp), T(l, cp, b)), fct2),
                                  CMul(CMul(CMul(T(l, b, c), phi0ccp), T(l, cp, b)), fct2h),
                                  {cb, ccp}) >>
                        ELSE <<>>)))

generate_phi1_1vN(p, den, En, phi1fct) ==
    LET ph == Unpack(p)
        terms == Array([l \in 0..(si.nleads - 1) |-> Phi1Terms(ph, En, phi1fct, l)])
    IN  [ st   |-> "ok",
          den  |-> den,
          phi1 |-> [x \in (0..(si.nleads - 1)) \X (0..(si.ndm1 - 1)) |->
                      CSumSeq(ForEach(terms[x[1]], LAMBDA t :
                          IF t.cb = x[2] THEN << t.phi1 >> ELSE <<>>))],
          current |-> [l \in 0..(si.nleads - 1) |->
                         -2 * Im(CSumSeq(List([i \in 1..Len(terms[l]) |-> terms[l][i].current])))],
          energy_current |-> [l \in 0..(si.nleads - 1) |->
                         -2 * Im(CSumSeq(List([i \in 1..Len(terms[l]) |-> terms[l][i].energy])))],
          subs |-> UNION {UNION {terms[l][i].subs : i \in 1..Len(terms[l])} :
                              l \in 0..(si.nleads - 1)} ]

-----------------------------------------------------------------------------
(* The linear solver (an external collaborator): it is handed (kern, bvec) *)
(* and returns a vector phi0 with kern . phi0 = bvec.  The model's solver  *)
(* proposes the Cramer solution of every square subsystem and a few small  *)
(* vectors, and returns any proposal that solves the whole system.         *)

Dot(row, p, n) == SumSeq(List([j \in 1..n |-> row[j - 1] * p[j - 1]]))

\* kern . (p / den) = bvec
Solves(k, p, den) ==
    LET cols == Cardinality(DOMAIN p)
    IN  \A r \in DOMAIN k.kern : Dot(k.kern[r], p, cols) = den * k.bvec[r]

RemoveAt(s, j) == SubSeq(s, 1, j - 1) \o SubSeq(s, j + 1, Len(s))

\* determinant of the rows rs and columns cs of m (entry(r, c)), along the first row
RECURSIVE Det(_, _, _)
Det(entry(_, _), rs, cs) ==
    IF rs = <<>> THEN 1
    ELSE SumSeq(List([j \in 1..Len(cs) |->
            IF entry(rs[1], cs[j]) = 0 THEN 0
            ELSE (IF j % 2 = 1 THEN 1 ELSE -1) * entry(rs[1], cs[j])
                 * Det(entry, Tail(rs), RemoveAt(cs, j))]))

\* the Cramer solution <<p, den>> of the square system made of the rows rs
Cramer(k, rs, n) ==
    LET cs == Range(n)
        den == Det(LAMBDA r, c : k.kern[r][c], rs, cs)
        num(j) == Det(LAMBDA r, c : IF c = j THEN k.bvec[r] ELSE k.kern[r][c], rs, cs)
        sgn == IF den < 0 THEN -1 ELSE 1
    IN  << [j \in 0..(n - 1) |-> sgn * num(j)], sgn * den >>

SolverProposals(k, n) ==
    LET rows == Cardinality(DOMAIN k.kern)
        all == Range(rows)
    IN  {Cramer(k, rs, n) : rs \in IF rows = n THEN {all}
                                   ELSE {RemoveAt(all, d) : d \in 1..rows}}
        \cup {<<p, SumSeq(List([j \in 1..si.npauli |-> p[j - 1]]))>> : p \in [0..(n - 1) -> {0, 1}]}

Solutions(k, n) ==
    {s \in SolverProposals(k, n) : s[2] > 0 /\ Solves(k, s[1], s[2])}

-----------------------------------------------------------------------------
(* The inputs.                                                             *)

Shapes ==
    {sz \in UNION {[1..k -> 1..MaxStates] : k \in 1..MaxStates} : SumSeq(sz) <= MaxStates}

\* The sector table carries an empty entry after the last sector.  The Pauli
\* functions look up no coherence: one indexer per shape serves them.
Indexers(kt) ==
    {s \in UNION {{BuildIndexer(sz, fb, nl, TRUE) :
                      fb \in IF kt = "Pauli" THEN {{}} ELSE SUBSET CoherencePairs(sz)} :
                  sz \in Shapes, nl \in 1..MaxLeads} :
        s.nleads * s.ndm1 <= MaxCoupled}

RateTables(s) == [TableDomain(s) -> 0..MaxRate]

\* values of the complex rate factors and of the tunneling amplitudes
PhiVals == {Cx(1, 0), Cx(0, 1)}
TVals == {Cx(1, 0), Cx(1, 1)}

PhiTables(s) == [TableDomain(s) -> PhiVals]

\* the adjacent-sector pairs <<c, b>> of an indexer
AdjacentPairs(s) == {q \in DOMAIN s.mapdm1 : s.mapdm1[q] # -1}

\* The tunneling amplitudes of a Hermitian tunneling Hamiltonian: Tba[l, b, c]
\* drawn for every lead and adjacent pair, Tba[l, c, b] its conjugate, and 0
\* between states that are not one charge apart
TbaTables(s) ==
    {[x \in (0..(s.nleads - 1)) \X (1..s.npauli) \X (1..s.npauli) |->
        IF <<x[3], x[2]>> \in AdjacentPairs(s) THEN u[<<x[1], x[3], x[2]>>]
        ELSE IF <<x[2], x[3]>> \in AdjacentPairs(s) THEN Conj(u[x])
        ELSE CZero] :
     u \in [{<<l, q[1], q[2]>> : l \in 0..(s.nleads - 1), q \in AdjacentPairs(s)} -> TVals]}

Hermitian(t) == \A x \in DOMAIN t : t[<<x[1], x[3], x[2]>>] = Conj(t[x])

\* funcp for a kernel of dim columns: the row selectors just outside the
\* rows, the first row and the last row
FuncpChoices(dim) ==
    {[symq |-> TRUE, norm_row |-> r] : r \in {-1, 0, dim - 1, dim}}
    \cup {[symq |-> FALSE, norm_row |-> r] : r \in {0, dim}}

\* eigenenergies: measured from the first state, ascending within a sector
EnergyTables(s) ==
    {e \in [1..s.npauli -> 0..MaxE] :
        /\ e[1] = 0
        /\ \A b, bp \in 1..s.npauli :
              (b < bp /\ s.chargeof[b] = s.chargeof[bp]) => e[b] <= e[bp]}

\* the vector of ones and the vector 0, 1, 0, 1, ...
PackedVectors(n) ==
    {[j \in 0..(n - 1) |-> 1], [j \in 0..(n - 1) |-> j % 2]}

-----------------------------------------------------------------------------
(* The pipeline of one parameter point: build the kernel, solve, evaluate  *)
(* the currents.  An operation draws the inputs it is the first to read.   *)

Init ==
    /\ kerntype \in {"Pauli", "1vN"}
    /\ si \in Indexers(kerntype)
    /\ fct \in IF kerntype = "Pauli" THEN RateTables(si) ELSE PhiTables(si)
    /\ E \in IF kerntype = "Pauli" THEN {None} ELSE EnergyTables(si)
    /\ Tba \in IF kerntype = "Pauli" THEN {None} ELSE TbaTables(si)
    /\ funcp = None
    /\ kern = None
    /\ phi0 = None
    /\ cur = None
    /\ vec = None
    /\ gen = None

KernPauli ==
    /\ kerntype = "Pauli"
    /\ kern = None
    /\ \E f \in FuncpChoices(si.npauli) :
        /\ funcp' = f
        /\ kern' = generate_kern_pauli(fct, f.symq, f.norm_row)
    /\ UNCHANGED <<si, kerntype, E, Tba, fct, phi0, cur, vec, gen>>

Kern1vN ==
    /\ kerntype = "1vN"
    /\ kern = None
    /\ \E f \in FuncpChoices(si.ndm0r) :
        /\ funcp' = f
        /\ kern' = generate_kern_1vN(E, fct, f.symq, f.norm_row)
    /\ UNCHANGED <<si, kerntype, E, Tba, fct, phi0, cur, vec, gen>>

Vec1vN ==
    /\ kerntype = "1vN"
    /\ kern # None
    /\ vec = None /\ phi0 = None
    /\ \E v \in PackedVectors(si.ndm0r) :
        vec' = [st |-> "done", v |-> v, res |-> generate_vec_1vN(v, E, fct, funcp.norm_row)]
    /\ UNCHANGED <<si, funcp, kerntype, E, Tba, fct, kern, phi0, cur, gen>>

Solve ==
    /\ kern.st = "ok"
    /\ phi0 = None /\ vec = None
    /\ \E s \in Solutions(kern, Cardinality(DOMAIN kern.kern[0])) :
        phi0' = [st |-> "ok", p |-> s[1], den |-> s[2]]
    /\ UNCHANGED <<si, funcp, kerntype, E, Tba, fct, kern, cur, vec, gen>>

CurrentPauli ==
    /\ kerntype = "Pauli"
    /\ phi0.st = "ok"
    /\ cur = None
    /\ \E e \in EnergyTables(si) :
        /\ E' = e
        /\ cur' = generate_current_pauli(phi0.p, phi0.den, e, fct)
    /\ UNCHANGED <<si, funcp, kerntype, Tba, fct, kern, phi0, vec, gen>>

Phi1_1vN ==
    /\ kerntype = "1vN"
    /\ phi0.st = "ok"
    /\ cur = None
    /\ cur' = generate_phi1_1vN(phi0.p, phi0.den, E, fct)
    /\ UNCHANGED <<si, funcp, kerntype, E, Tba, fct, kern, phi0, vec, gen>>

Next == KernPauli \/ Kern1vN \/ Vec1vN \/ Solve \/ CurrentPauli \/ Phi1_1vN

Spec == Init /\ [][Next]_vars

-----------------------------------------------------------------------------
(* The kernel builders and the matrix-free operator on sector tables that  *)
(* hold exactly the sectors 0..ncharge-1, with no entry after the last.    *)

IndexersExact(kt) ==
    {s \in UNION {{BuildIndexer(sz, fb, nl, FALSE) :
                      fb \in IF kt = "Pauli" THEN {{}} ELSE SUBSET CoherencePairs(sz)} :
                  sz \in Shapes, nl \in 1..MaxLeads} :
        s.nleads * s.ndm1 <= MaxCoupled}

InitExact ==
    /\ kerntype \in {"Pauli", "1vN"}
    /\ si \in IndexersExact(kerntype)
    /\ fct \in IF kerntype = "Pauli" THEN RateTables(si) ELSE PhiTables(si)
    /\ E \in IF kerntype = "Pauli" THEN {None} ELSE EnergyTables(si)
    /\ Tba \in IF kerntype = "Pauli" THEN {None} ELSE TbaTables(si)
    /\ funcp = None
    /\ kern = None
    /\ phi0 = None
    /\ cur = None
    /\ vec = None
    /\ gen = None

NextExact == KernPauli \/ Kern1vN \/ Vec1vN

SpecExact == InitExact /\ [][NextExact]_vars

-----------------------------------------------------------------------------
(* The rate-factor generators generate_paulifct and generate_phi1fct.  The *)
(* rate-function oracle (func_pauli and func_1vN of qmeq/specfunc.py)      *)
(* answers a call with a number or fails with an error; a                  *)
(* run of a generator is determined by the answers the oracle has for the  *)
(* calls in the order they are made.                                       *)

\* lead chemical potentials sys.leads.mulst and temperatures sys.leads.tlst
mulst == [l \in 0..(MaxLeads - 1) |-> l]
tlst == [l \in 0..(MaxLeads - 1) |-> 1]

OracleErrors == {"not convergent", "invalid argument"}

\* what the oracle may answer: func_pauli a real rate, func_1vN a complex factor
OracleAnswers(kt) ==
    {[ok |-> TRUE, val |-> v, err |-> ""] :
        v \in IF kt = "Pauli" THEN 0..MaxRate ELSE PhiVals}
    \cup {[ok |-> FALSE, val |-> IF kt = "Pauli" THEN 0 ELSE CZero, err |-> e] :
            e \in OracleErrors}

\* The oracle calls of one run in the order of the loops (lines 36-43 and
\* 64-72): for every adjacent pair (c, b) and lead l, branch 0 and then
\* branch 1; arg is the energy argument handed to the oracle.
FctCalls(En) ==
    ForEach(Range(si.ncharge - 1), LAMBDA charge :
        ForEach(Product(Sector(charge + 1), Sector(charge)), LAMBDA q :
            ForEach(Range(si.nleads), LAMBDA l :
                LET c == q[1]
                    b == q[2]
                    cb == get_ind_dm1(c, b, charge)
                IN  << [c |-> c, b |-> b, l |-> l, cb |-> cb, d |-> 0,
                        arg |-> En[b] - En[c] + mulst[l], T |-> tlst[l], D |-> dlst[l]],
                       [c |-> c, b |-> b, l |-> l, cb |-> cb, d |-> 1,
                        arg |-> -(En[b] - En[c] + mulst[l]), T |-> tlst[l], D |-> dlst[l]] >>)))

\* xcb of line 70
Xcb(call) == Re(CMul(T(call.l, call.b, call.c), T(call.l, call.c, call.b)))

\* the oracle's answer stored as it is, whatever the generator
FctStoredUnweighted(kt, call, answer) == answer.val

\* what the assignment of lines 71-72 (paulifct) and 42-43 (phi1fct) stores
FctStored(kt, call, answer) ==
    IF kt = "Pauli" THEN Xcb(call) * answer.val ELSE answer.val

\* the first call the oracle fails on, 0 if it answers them all
FirstFailure(answers) ==
    IF \A i \in DOMAIN answers : answers[i].ok THEN 0
    ELSE CHOOSE i \in DOMAIN answers :
            ~answers[i].ok /\ \A j \in 1..(i - 1) : answers[j].ok

\* the table after the assignments of the calls made: zeros, then each
\* entry as its last assignment left it
FctTable(kt, calls, answers) ==
    [x \in TableDomain(si) |->
        LET at == {i \in 1..Len(calls) : <<calls[i].l, calls[i].cb, calls[i].d>> = x}
        IN  IF at = {} THEN (IF kt = "Pauli" THEN 0 ELSE CZero)
            ELSE LET i == CHOOSE i \in at : \A j \in at : j <= i
                 IN  FctStored(kt, calls[i], answers[i])]

\* a generator that stores 0 for a call the oracle fails on and carries on
FctRunCaught(kt, calls, answers) ==
    [ st     |-> "returned",
      oracle |-> answers,
      calls  |-> calls,
      err    |-> "",
      table  |-> FctTable(kt, calls, answers) ]

\* A run of the loops: the calls made up to the first failure, which ends
\* the run with the oracle's error; the table returned after the last call.
FctRun(kt, calls, answers) ==
    LET f == FirstFailure(answers)
    IN  IF f = 0
        THEN [ st     |-> "returned",
               oracle |-> answers,
               calls  |-> calls,
               err    |-> "",
               table  |-> FctTable(kt, calls, answers) ]
        ELSE [ st     |-> "raised",
               oracle |-> answers,
               calls  |-> SubSeq(calls, 1, f),
               err    |-> answers[f].err,
               table  |-> <<>> ]

generate_paulifct(En, answers) == FctRun("Pauli", FctCalls(En), answers)

\* phi1fct with phi1fct_energy (lines 44-45) filled from it
generate_phi1fct(En, answers) ==
    LET run == FctRun("1vN", FctCalls(En), answers)
    IN  IF run.st = "returned"
        THEN [ st     |-> "returned",
               oracle |-> run.oracle,
               calls  |-> run.calls,
               err    |-> "",
               table  |-> run.table,
               energy |-> [x \in TableDomain(si) |->
                             LET q == CHOOSE q \in AdjacentPairs(si) : si.mapdm1[q] = x[2]
                             IN  Phi1fctEnergy(En, run.table, x[1], q[1], q[2], x[3])] ]
        ELSE run

InitFct ==
    /\ kerntype \in {"Pauli", "1vN"}
    /\ si \in Indexers(kerntype)
    /\ E \in EnergyTables(si)
    /\ Tba \in TbaTables(si)
    /\ fct = None
    /\ funcp = None
    /\ kern = None
    /\ phi0 = None
    /\ cur = None
    /\ vec = None
    /\ gen = None

GeneratePaulifct ==
    /\ kerntype = "Pauli"
    /\ gen = None
    /\ \E answers \in [1..Len(FctCalls(E)) -> OracleAnswers("Pauli")] :
          gen' = generate_paulifct(E, answers)
    /\ UNCHANGED <<si, funcp, kerntype, E, Tba, fct, kern, phi0, cur, vec>>

GeneratePhi1fct ==
    /\ kerntype = "1vN"
    /\ gen = None
    /\ \E answers \in [1..Len(FctCalls(E)) -> OracleAnswers("1vN")] :
          gen' = generate_phi1fct(E, answers)
    /\ UNCHANGED <<si, funcp, kerntype, E, Tba, fct, kern, phi0, cur, vec>>

NextFct == GeneratePaulifct \/ GeneratePhi1fct

SpecFct == InitFct /\ [][NextFct]_vars

-----------------------------------------------------------------------------
(* Properties.                                                             *)

\* the sum of a vector indexed from 0
Total(x, n) == SumSeq(List([j \in 1..n |-> x[j - 1]]))

\* C1: in symmetric mode, with funcp.norm_row a population row, the dense 1vN
\* kernel applied to a packed real vector v equals generate_vec_1vN(v) in
\* every slot other than the normalization slot: in the slots [0, ndm0) and
\* in the appended coherence slots [ndm0, ndm0r).
C1_KernelTimesVecIsVec ==
    (/\ kerntype = "1vN" /\ kern.st = "ok"
     /\ funcp.symq /\ funcp.norm_row \in 0..(si.npauli - 1)
     /\ vec.st = "done" /\ vec.res.st = "ok")
    => \A k \in 0..(si.ndm0r - 1) :
          k # funcp.norm_row => Dot(kern.kern[k], vec.v, si.ndm0r) = vec.res.out[k]

\* the part of C1 the code keeps: the agreement in the slots [0, ndm0)
C1_FirstBlockAgrees ==
    (/\ kerntype = "1vN" /\ kern.st = "ok"
     /\ funcp.symq /\ funcp.norm_row \in 0..(si.npauli - 1)
     /\ vec.st = "done" /\ vec.res.st = "ok")
    => \A k \in 0..(si.ndm0 - 1) :
          k # funcp.norm_row => Dot(kern.kern[k], vec.v, si.ndm0r) = vec.res.out[k]

\* the appended slots carry the opposite sign
C1_AppendedSlotsNegated ==
    (/\ kerntype = "1vN" /\ kern.st = "ok"
     /\ funcp.symq /\ funcp.norm_row \in 0..(si.npauli - 1)
     /\ vec.st = "done" /\ vec.res.st = "ok")
    => \A k \in si.ndm0..(si.ndm0r - 1) :
          Dot(kern.kern[k], vec.v, si.ndm0r) = -vec.res.out[k]

\* C2: the charge currents generate_current_pauli returns for a solution
\* phi0 of kern . phi0 = bvec of generate_kern_pauli's kernel (full or
\* symmetric mode) sum to zero over the leads.
C2_PauliCurrentSumRule ==
    (kerntype = "Pauli" /\ cur.st = "ok") => Total(cur.current, si.nleads) = 0

C2_Witness ==
    /\ kerntype = "Pauli" /\ cur.st = "ok"
    /\ funcp.norm_row = 0
    /\ si.nleads = 2 /\ cur.current[0] # 0
    /\ Solves(kern, phi0.p, phi0.den)

\* C3: for Hermitian Tba, the charge currents generate_phi1_1vN returns for a
\* solution phi0 of kern . phi0 = bvec of generate_kern_1vN's kernel, each -2
\* times the imaginary part of the lead's accumulated sum, sum to zero over
\* the leads.
C3_1vNCurrentSumRule ==
    (kerntype = "1vN" /\ cur.st = "ok" /\ Hermitian(Tba))
    => Total(cur.current, si.nleads) = 0

C3_Witness ==
    /\ kerntype = "1vN" /\ cur.st = "ok" /\ Hermitian(Tba)
    /\ funcp.norm_row = 0
    /\ si.nleads = 2 /\ cur.current[0] # 0
    /\ Solves(kern, phi0.p, phi0.den)

\* a solution with a coherence in it, its current evaluated
C3_WitnessCoherent ==
    /\ kerntype = "1vN" /\ cur.st = "ok" /\ Hermitian(Tba)
    /\ si.ndm0 > si.npauli
    /\ \E k \in si.npauli..(si.ndm0r - 1) : phi0.p[k] # 0
    /\ \E x \in DOMAIN cur.phi1 : cur.phi1[x] # CZero

\* C4: if paulifct[l, cb, 0] * w[b] = paulifct[l, cb, 1] * w[c] for every lead
\* l and adjacent pair (c, b), for positive weights w, then phi0 = w / sum(w)
\* satisfies every row of kern . phi0 = bvec of generate_kern_pauli's kernel.
DetailedBalance(paulifct, w) ==
    \A l \in 0..(si.nleads - 1) : \A q \in AdjacentPairs(si) :
        paulifct[<<l, si.mapdm1[q], 0>>] * w[q[2]] = paulifct[<<l, si.mapdm1[q], 1>>] * w[q[1]]

Equilibrium(w) == [k \in 0..(si.npauli - 1) |-> w[k + 1]]

C4_DetailedBalance ==
    (kerntype = "Pauli" /\ kern.st = "ok")
    => \A w \in [1..si.npauli -> 1..MaxWeight] :
          DetailedBalance(fct, w)
          => Solves(kern, Equilibrium(w), Total(Equilibrium(w), si.npauli))

\* a kernel of unequal rates balanced by unequal weights
C4_Witness ==
    /\ kerntype = "Pauli" /\ kern.st = "ok"
    /\ \E x \in DOMAIN fct : fct[x] = 1 /\ fct[<<x[1], x[2], 1 - x[3]>>] = 2
    /\ \E w \in [1..si.npauli -> 1..MaxWeight] :
          /\ DetailedBalance(fct, w)
          /\ \E b, c \in 1..si.npauli : w[b] # w[c]
          /\ Solves(kern, Equilibrium(w), Total(Equilibrium(w), si.npauli))

\* the rows and columns of a returned kernel
Rows == DOMAIN kern.kern
Columns == IF kerntype = "Pauli" THEN 0..(si.npauli - 1) ELSE 0..(si.ndm0r - 1)

\* row r is the normalization condition: 1 in the population columns, 0 elsewhere
IsNormalizationRow(r) ==
    \A c \in Columns : kern.kern[r][c] = IF c < si.npauli THEN 1 ELSE 0

\* C5: a kernel either builder returns, for either symq, has exactly one row
\* encoding the normalization: that row is 1 in every population column and 0
\* in every other column, with no rate or energy contribution, and bvec is 1
\* at that row and 0 at every other row.
C5_OneNormalizationRow ==
    kern.st = "ok"
    => \E r \in Rows :
          /\ IsNormalizationRow(r)
          /\ \A q \in Rows : kern.bvec[q] = IF q = r THEN 1 ELSE 0

\* C5 holds of the kernels built with the row selector in range
C5_InRangeOneNormalizationRow ==
    (kern.st = "ok" /\ (funcp.symq => funcp.norm_row >= 0))
    => \E r \in Rows :
          /\ IsNormalizationRow(r)
          /\ \A q \in Rows : kern.bvec[q] = IF q = r THEN 1 ELSE 0

\* C6: with funcp.norm_row outside [0, ndm0) (Pauli) or [0, ndm0r) (1vN),
\* negative values included, the builder reports an error before it assembles
\* any kernel entry and returns no kernel.
NormRowRange == IF kerntype = "Pauli" THEN 0..(si.ndm0 - 1) ELSE 0..(si.ndm0r - 1)

C6_OutOfRangeRejected ==
    (kern # None /\ funcp.norm_row \notin NormRowRange)
    => (kern.st = "IndexError" /\ kern.n = 0)

\* C7 as stated: kern has npauli columns and npauli rows in either mode, and
\* bvec has as many entries as kern has rows.
C7_SquareInBothModes ==
    (kerntype = "Pauli" /\ kern.st = "ok")
    => /\ Rows = 0..(si.npauli - 1)
       /\ \A r \in Rows : DOMAIN kern.kern[r] = 0..(si.npauli - 1)
       /\ DOMAIN kern.bvec = Rows

\* C7 amended: kern has npauli columns, npauli + 1 rows in full mode and
\* npauli rows in symmetric mode; bvec has as many entries as kern has rows.
C7_PauliKernelShape ==
    (kerntype = "Pauli" /\ kern.st = "ok")
    => /\ Rows = 0..(IF funcp.symq THEN si.npauli - 1 ELSE si.npauli)
       /\ \A r \in Rows : DOMAIN kern.kern[r] = 0..(si.npauli - 1)
       /\ DOMAIN kern.bvec = Rows

C7_Witness ==
    /\ kerntype = "Pauli" /\ kern.st = "ok"
    /\ ~funcp.symq
    /\ Rows = 0..si.npauli
    /\ si.npauli = MaxStates

CallsFor(d, l, c, b) ==
    {i \in 1..Len(gen.calls) :
        gen.calls[i].d = d /\ gen.calls[i].l = l /\ gen.calls[i].c = c /\ gen.calls[i].b = b}

\* C9 as stated: in a run that returns, each branch, lead and adjacent pair
\* (c, b) went to the oracle exactly once, and the answer to that call is the
\* entry [lead, dm1(c, b), branch] of the table.
C9_OracleAnswerStored ==
    gen.st = "returned"
    => \A d \in {0, 1} : \A l \in 0..(si.nleads - 1) : \A q \in AdjacentPairs(si) :
          /\ Cardinality(CallsFor(d, l, q[1], q[2])) = 1
          /\ \A i \in CallsFor(d, l, q[1], q[2]) :
                gen.table[<<l, si.mapdm1[q], d>>] = gen.oracle[i].val

\* C9: in a run that returns, each branch, lead and adjacent pair (c, b) went
\* to the oracle exactly once; phi1fct holds the answer to that call at
\* [lead, dm1(c, b), branch], and paulifct holds there the answer multiplied
\* by the real part of Tba[lead, b, c] * Tba[lead, c, b].
C9_OncePerTripleStoredWeighted ==
    gen.st = "returned"
    => \A d \in {0, 1} : \A l \in 0..(si.nleads - 1) : \A q \in AdjacentPairs(si) :
          /\ Cardinality(CallsFor(d, l, q[1], q[2])) = 1
          /\ \A i \in CallsFor(d, l, q[1], q[2]) :
                gen.table[<<l, si.mapdm1[q], d>>] =
                    IF kerntype = "Pauli"
                    THEN Re(CMul(Tba[<<l, q[2], q[1]>>], Tba[<<l, q[1], q[2]>>]))
                         * gen.oracle[i].val
                    ELSE gen.oracle[i].val

\* a Pauli run over two pairs that returns, with a nonzero answer for a
\* pair whose tunnelling weight is not 1
C9_Witness ==
    /\ gen.st = "returned"
    /\ kerntype = "Pauli"
    /\ Len(gen.calls) >= 4
    /\ \E i \in 1..Len(gen.calls) :
          gen.oracle[i].val # 0 /\ Xcb(gen.calls[i]) # 1

\* a 1vN run that returns with different answers for the two branches
C9_Witness1vN ==
    /\ gen.st = "returned"
    /\ kerntype = "1vN"
    /\ \E i, j \in 1..Len(gen.calls) : gen.oracle[i].val # gen.oracle[j].val

\* C10: when the oracle fails on a call, the run ends there with the
\* oracle's error: no call is made after the failing one and no table is
\* returned.
C10_OracleFailurePropagates ==
    (gen.st # "none" /\ FirstFailure(gen.oracle) # 0)
    => /\ gen.st = "raised"
       /\ gen.err = gen.oracle[FirstFailure(gen.oracle)].err
       /\ Len(gen.calls) = FirstFailure(gen.oracle)
       /\ DOMAIN gen.table = {}

\* the oracle fails after it has answered a call and before the last call
C10_Witness ==
    /\ gen.st = "raised"
    /\ 1 < Len(gen.calls)
    /\ Len(gen.calls) < Len(FctCalls(E))
    /\ gen.oracle[1].val # 0
    /\ gen.err = "invalid argument"

\* the sum of F over a finite set
RECURSIVE SumFn(_)
SumFn(f) ==
    IF DOMAIN f = {} THEN 0
    ELSE LET x == CHOOSE x \in DOMAIN f : TRUE
         IN  f[x] + SumFn([y \in DOMAIN f \ {x} |-> f[y]])

SumOver(S, F(_)) == SumFn([x \in S |-> F(x)])

\* the address of the population of state b
Pop(b) == si.mapdm0[<<b, b>>]

\* the rows of a returned kernel other than the row that holds the normalization
RateRows == {r \in 0..(si.npauli - 1) : funcp.symq => r # NpIndex(funcp.norm_row, si.npauli)}

\* C11: for each lead l, current[l] is the sum over the adjacent pairs (c, b)
\* of phi0[bb] * paulifct[l, cb, 0] - phi0[cc] * paulifct[l, cb, 1], and
\* energy_current[l] the same sum with each term weighted by E[c] - E[b];
\* both have nleads entries; paulifct[l, cb, 0] is what the kernel subtracts
\* on the diagonal of the lower state b and paulifct[l, cb, 1] what it
\* subtracts on the diagonal of the upper state c.
C11_PauliCurrentFormula ==
    (kerntype = "Pauli" /\ cur.st = "ok")
    => /\ DOMAIN cur.current = 0..(si.nleads - 1)
       /\ DOMAIN cur.energy_current = 0..(si.nleads - 1)
       /\ \A l \in 0..(si.nleads - 1) :
             /\ cur.current[l] =
                   SumOver(AdjacentPairs(si), LAMBDA q :
                       phi0.p[Pop(q[2])] * fct[<<l, si.mapdm1[q], 0>>]
                       - phi0.p[Pop(q[1])] * fct[<<l, si.mapdm1[q], 1>>])
             /\ cur.energy_current[l] =
                   SumOver(AdjacentPairs(si), LAMBDA q :
                       (E[q[1]] - E[q[2]])
                       * (phi0.p[Pop(q[2])] * fct[<<l, si.mapdm1[q], 0>>]
                          - phi0.p[Pop(q[1])] * fct[<<l, si.mapdm1[q], 1>>]))
       /\ \A x \in 1..si.npauli :
             Pop(x) \in RateRows
             => kern.kern[Pop(x)][Pop(x)] =
                   -SumOver((0..(si.nleads - 1)) \X AdjacentPairs(si), LAMBDA y :
                       IF y[2][2] = x THEN fct[<<y[1], si.mapdm1[y[2]], 0>>]
                       ELSE IF y[2][1] = x THEN fct[<<y[1], si.mapdm1[y[2]], 1>>]
                       ELSE 0)

\* currents of both signs of weight: two leads, a pair of different energies,
\* unequal populations, a charge current and an energy current that are not 0
C11_Witness ==
    /\ kerntype = "Pauli" /\ cur.st = "ok"
    /\ si.nleads = 2
    /\ \E q \in AdjacentPairs(si) :
          /\ E[q[1]] # E[q[2]]
          /\ phi0.p[Pop(q[1])] # phi0.p[Pop(q[2])]
    /\ cur.current[0] # 0
    /\ cur.energy_current[0] # 0

\* the rate from state x into state b summed over the leads: paulifct[l, bx, 0]
\* if b is one charge above x, paulifct[l, xb, 1] if b is one charge below x
RateInto(b, x) ==
    SumOver(0..(si.nleads - 1), LAMBDA l :
        IF <<b, x>> \in AdjacentPairs(si) THEN fct[<<l, si.mapdm1[<<b, x>>], 0>>]
        ELSE IF <<x, b>> \in AdjacentPairs(si) THEN fct[<<l, si.mapdm1[<<x, b>>], 1>>]
        ELSE 0)

\* C12: in full mode the rows [0, npauli) of the Pauli kernel form a Markov
\* generator: every column of them sums to zero, every off-diagonal entry is
\* the sum of the rate factors of the transition from the column's state to
\* the row's state, and every diagonal entry is minus the sum of the rate
\* factors of the transitions out of its state.
C12_MarkovGenerator ==
    (kerntype = "Pauli" /\ kern.st = "ok" /\ ~funcp.symq)
    => /\ \A c \in 0..(si.npauli - 1) :
             SumOver(0..(si.npauli - 1), LAMBDA r : kern.kern[r][c]) = 0
       /\ \A b, x \in 1..si.npauli :
             /\ b # x => /\ kern.kern[Pop(b)][Pop(x)] = RateInto(b, x)
                         /\ kern.kern[Pop(b)][Pop(x)] >= 0
             /\ kern.kern[Pop(x)][Pop(x)] =
                   -SumOver((1..si.npauli) \ {x}, LAMBDA y : RateInto(y, x))
             /\ kern.kern[Pop(x)][Pop(x)] <= 0

\* a full-mode kernel over three sectors with rates that differ by branch
C12_Witness ==
    /\ kerntype = "Pauli" /\ kern.st = "ok" /\ ~funcp.symq
    /\ si.ncharge = 3
    /\ \E x \in DOMAIN fct : fct[x] # fct[<<x[1], x[2], 1 - x[3]>>]
    /\ \E b, x \in 1..si.npauli : b # x /\ kern.kern[Pop(b)][Pop(x)] > 0
    /\ \A x \in 1..si.npauli : kern.kern[Pop(x)][Pop(x)] < 0

\* whether the sector table holds exactly the sectors 0..ncharge-1
ExactTable == Len(si.statesdm) = si.ncharge

\* C13: on a sector table that holds exactly the sectors 0..ncharge-1 the
\* builders make no out-of-range sector access, so a builder handed a row
\* selector inside its rows returns a kernel and the operator an output, and
\* outside the normalization row kern[bb, xx] is zero for the populations bb
\* and xx of two states whose charges do not differ by exactly one.
C13_OnlyAdjacentSectorsCoupled ==
    ExactTable
    => /\ (kern # None /\ (funcp.symq => InRange(funcp.norm_row, Cardinality(Columns))))
             => kern.st = "ok"
       /\ (vec.st = "done" /\ InRange(funcp.norm_row, si.ndm0))
             => vec.res.st = "ok"
       /\ kern.st = "ok"
             => \A b, x \in 1..si.npauli :
                   (/\ Pop(b) \in RateRows
                    /\ b # x
                    /\ si.chargeof[b] - si.chargeof[x] \notin {-1, 1})
                   => kern.kern[Pop(b)][Pop(x)] = 0

\* what the code does on such a table: the 1vN builder and the operator raise
\* IndexError at the last sector, and the Pauli builder returns a kernel only
\* in symmetric mode when the last sector is a single state whose row is the
\* normalization row
C13_ExactTableBehaviour ==
    ExactTable
    => /\ (kerntype = "1vN" /\ kern # None) => kern.st = "IndexError"
       /\ vec.st = "done" => vec.res.st = "IndexError"
       /\ (kerntype = "Pauli" /\ kern.st = "ok")
             => /\ funcp.symq
                /\ Len(si.statesdm[si.ncharge]) = 1
                /\ NpIndex(funcp.norm_row, si.npauli) = si.npauli - 1

\* the addresses of the populations and of the coherences
Populations == 0..(si.npauli - 1)
Coherences == si.npauli..(si.ndm0 - 1)

\* the slots of the packed vector that hold density-matrix element k
SlotsOf(k) == IF k \in Coherences THEN {k, ImagSlot(k)} ELSE {k}

\* the updates the loops over the pairs (b, bp) make, before the normalization
LoopUpdates ==
    LET us == Kern1vNUpdates(E, fct, funcp.norm_row)
    IN  SubSeq(us, 1, Len(us) - Len(Kern1vNNorm(funcp.norm_row)))

\* phi0 as the layout unpacks the vector v
Unpacked(v) ==
    [k \in 0..(si.ndm0 - 1) |->
        IF k \in Coherences THEN Cx(v[k], v[si.ndm0 + k - si.npauli]) ELSE Cx(v[k], 0)]

\* C14: the imaginary slot of address k is ndm0 + k - npauli; for a coherence
\* it lies in [ndm0, ndm0r), ndm0r = 2 * ndm0 - npauli, and distinct
\* coherences have distinct slots; for a population it is below ndm0 and is
\* used neither as a row nor as a column: a factor from element x to element
\* bbp is written exactly at the rows SlotsOf(bbp) and columns SlotsOf(x),
\* and the loops of generate_kern_1vN write only indices in [0, ndm0r);
\* generate_vec_1vN and generate_phi1_1vN unpack with the same layout.
C14_PackingLayout ==
    kerntype = "1vN"
    => /\ si.ndm0r = 2 * si.ndm0 - si.npauli
       /\ \A k \in Coherences : ImagSlot(k) \in si.ndm0..(si.ndm0r - 1)
       /\ \A k, j \in Coherences : k # j => ImagSlot(k) # ImagSlot(j)
       /\ \A k \in Populations : ImagSlot(k) < si.ndm0
       /\ kern.st = "ok"
             => /\ LET us == LoopUpdates
                   IN  \A i \in 1..Len(us) :
                          /\ us[i].row \in 0..(si.ndm0r - 1)
                          /\ us[i].col \in 0..(si.ndm0r - 1)
                /\ \A bbp, x \in 0..(si.ndm0 - 1) :
                      LET us == Route(bbp, ImagSlot(bbp), ImagSlot(bbp) >= si.ndm0, x, 1,
                                      Fct(Cx(1, 1), TRUE, {}))
                      IN  /\ {<<us[i].row, us[i].col>> : i \in 1..Len(us)}
                                = SlotsOf(bbp) \X SlotsOf(x)
                          /\ Len(us) = Cardinality(SlotsOf(bbp) \X SlotsOf(x))
       /\ vec.st = "done" => Unpack(vec.v) = Unpacked(vec.v)
       /\ phi0.st = "ok" => Unpack(phi0.p) = Unpacked(phi0.p)

\* a kernel over two coherences or more, and a vector with a nonzero
\* imaginary part of a coherence handed to the operator
C14_Witness ==
    /\ kerntype = "1vN" /\ kern.st = "ok"
    /\ si.ndm0 - si.npauli >= 2
    /\ LET us == LoopUpdates
       IN  \E i \in 1..Len(us) : us[i].row >= si.ndm0
    /\ vec.st = "done" /\ vec.res.st = "ok"
    /\ \E k \in Coherences : vec.v[ImagSlot(k)] # 0


=============================================================================
